---- MODULE Spec2Model ----
(***************************************************************************)
(* Model of the garage record server (src/server.ts): the Express routes   *)
(* for signup, login and the four vehicle routes behind the authenticate   *)
(* middleware, over the two SQLite tables users and vehicles, and of the   *)
(* dashboard's service-date statistics computed by the client.             *)
(***************************************************************************)
EXTENDS Integers, Sequences, FiniteSets, TLC

(***************************************************************************)
(* Bounds of the model.                                                    *)
(***************************************************************************)
MaxVehicles == 2        \* rows ever inserted into vehicles
MaxInFlight == 2        \* auth requests suspended at an await at one time
MaxClientVehicles == 1  \* length of the client's vehicles list (SpecStats)
MaxDay == 9             \* calendar days 0..MaxDay (SpecStats)
TicksPerDay == 2        \* instants per calendar day (SpecStats)

(***************************************************************************)
(* Input domains.  Auth bodies carry strings, as the API table says.       *)
(***************************************************************************)
\* Request bodies of POST /api/auth/signup
SignupBodies ==
    { [email |-> "a@x.com", password |-> "pw123", garageName |-> "Bob's Garage"],
      [email |-> "b@x.com", password |-> "hunter2", garageName |-> "Al's Autos"] }

\* Request bodies of POST /api/auth/login
LoginBodies ==
    { [email |-> e, password |-> p] :
        e \in {"a@x.com", "b@x.com"}, p \in {"pw123", "hunter2"} }

\* Salts bcrypt.hash may draw.
Salts == {"salt1"}

JWT_SECRET == "fallback-secret"
OTHER_SECRET == "other-secret"

NULL == "<NULL>"

VehicleColumns ==
    {"owner_name", "phone", "vehicle_number", "make", "model",
     "last_service_date", "next_service_date", "notes"}

\* Request bodies of POST/PUT /api/vehicles.  Dates are calendar day numbers
\* (the text 'yyyy-MM-dd' names a day).  The first body also carries fields
\* the routes do not read (id, user_id); the second omits notes.
VehicleBodies ==
    { [owner_name |-> "Jane", phone |-> "555", vehicle_number |-> "AB123",
       make |-> "Honda", model |-> "City",
       last_service_date |-> 1, next_service_date |-> 2, notes |-> "first",
       id |-> 7, user_id |-> 2],
      [owner_name |-> "Raj", phone |-> "777", vehicle_number |-> "XY999",
       make |-> "Tata", model |-> "Nexon",
       last_service_date |-> 3, next_service_date |-> 4] }

VARIABLES
    users,            \* table users: set of rows
    vehicles,         \* table vehicles: set of rows
    sqlite_sequence,  \* AUTOINCREMENT counters of the two tables
    issued,           \* tokens the server has returned to clients
    pending,          \* auth requests suspended at await bcrypt.hash/compare
    last,             \* the request answered last, with its response
    created,          \* history: <<id, account>> of every vehicle row inserted
    clientVehicles,   \* client state `vehicles` (SpecStats)
    today,            \* client `new Date()` at the stats computation
    stats             \* client `stats`

serverVars ==
    <<users, vehicles, sqlite_sequence, issued, pending, last, created>>
clientVars == <<clientVehicles, today, stats>>
vars == <<users, vehicles, sqlite_sequence, issued, pending, last, created,
          clientVehicles, today, stats>>

Idle == [route |-> "idle"]
NoRequest == [route |-> "none"]
Slots == 1..MaxInFlight

(***************************************************************************)
(* bcrypt, jsonwebtoken                                                    *)
(***************************************************************************)
\* bcrypt.hash(password, 10): a salted digest.
BcryptHash(password, salt) == [plain |-> password, salt |-> salt]

BcryptCompareAlways(password, digest) == TRUE
\* bcrypt.compare(password, digest)
BcryptCompare(password, digest) == digest.plain = password

\* jwt.sign(payload, secret); the iat field it adds to the payload is read
\* nowhere and left out.
JwtSign(payload, secret) == [secret |-> secret, payload |-> payload]

JwtVerifyAnySecret(token, secret) == TRUE
JwtVerifyNewestAccount(token, secret) ==
    token.secret = secret /\ token.payload.userId = sqlite_sequence.users
\* jwt.verify(token, secret) does not throw
JwtVerify(token, secret) == token.secret = secret

\* A token a client makes up without the server's secret.
ForgedTokens ==
    { JwtSign([userId |-> 1, email |-> "a@x.com",
               garageName |-> "Bob's Garage"], OTHER_SECRET) }

\* Values of req.headers.authorization?.split(" "): <<>> stands for an absent
\* header; element 1 (the scheme) is never read.
Headers ==
    {<<>>, <<"Bearer">>} \cup {<<"Bearer", t>> : t \in issued \cup ForgedTokens}

(***************************************************************************)
(* Responses                                                               *)
(***************************************************************************)
Res(status, body) == [status |-> status, body |-> body]

\* Object spread {...a, ...b}: the fields of b override those of a.
Spread(a, b) ==
    [k \in (DOMAIN a) \cup (DOMAIN b) |-> IF k \in DOMAIN b THEN b[k] ELSE a[k]]

BindOrEmpty(body, column) == IF column \in DOMAIN body THEN body[column] ELSE ""
\* A bound parameter: a field the body lacks is undefined and binds as NULL.
Bind(body, column) == IF column \in DOMAIN body THEN body[column] ELSE NULL

(***************************************************************************)
(* The middleware                                                          *)
(***************************************************************************)
HasNoToken(authorization) == Len(authorization) < 2

\* The outcome of authenticate: next() with req.user, or a 401.
authenticate(authorization) ==
    IF HasNoToken(authorization)
    THEN [next |-> FALSE, res |-> Res(401, [error |-> "Unauthorized"])]
    ELSE IF JwtVerify(authorization[2], JWT_SECRET)
         THEN [next |-> TRUE, user |-> authorization[2].payload]
         ELSE [next |-> FALSE, res |-> Res(401, [error |-> "Invalid token"])]

Init ==
    /\ users = {}
    /\ vehicles = {}
    /\ sqlite_sequence = [users |-> 0, vehicles |-> 0]
    /\ issued = {}
    /\ pending = [s \in Slots |-> Idle]
    /\ last = [req |-> NoRequest, res |-> Res(0, NULL), ran |-> FALSE]
    /\ created = <<>>
    /\ clientVehicles = <<>>
    /\ today = 0
    /\ stats = [total |-> 0, overdue |-> 0, upcoming |-> 0]


(***************************************************************************)
(* SQL statements                                                          *)
(***************************************************************************)
EmailUniqueUnchecked(email) == TRUE
\* users.email TEXT UNIQUE: the INSERT is accepted iff no row holds the email
\* (BINARY collation: exact, case-sensitive comparison).
EmailUnique(email) == \A u \in users : u.email # email

InsertOrReplaceUser(row) ==
    [throws |-> FALSE,
     rows |-> {u \in users : u.email # row.email} \cup {row}]
\* INSERT INTO users (email, password, garage_name) VALUES (?, ?, ?): the
\* table afterwards, or the UNIQUE constraint failure thrown.
InsertUser(row) ==
    IF EmailUnique(row.email)
    THEN [throws |-> FALSE, rows |-> users \cup {row}]
    ELSE [throws |-> TRUE, rows |-> users]

\* SELECT * FROM users WHERE email = ?
SelectUserByEmail(email) == {u \in users : u.email = email}

\* INTEGER PRIMARY KEY AUTOINCREMENT: one more than the largest id ever used.
NextRowidMax(table) ==
    LET ids == {r.id : r \in (IF table = "users" THEN users ELSE vehicles)}
    IN  IF ids = {} THEN 1 ELSE (CHOOSE m \in ids : \A i \in ids : i <= m) + 1
\* AUTOINCREMENT: one more than the largest rowid the table has ever held.
NextRowid(table) == sqlite_sequence[table] + 1

ListWhereAll(v, userId) == TRUE
\* WHERE user_id = ?
ListWhere(v, userId) == v.user_id = userId

OrderByIdAsc(rows) ==
    LET RECURSIVE Asc(_)
        Asc(S) == IF S = {} THEN <<>>
                  ELSE LET m == CHOOSE r \in S : \A q \in S : r.id <= q.id
                       IN  <<m>> \o Asc(S \ {m})
    IN  Asc(rows)
\* ORDER BY id DESC
OrderByIdDesc(rows) ==
    LET RECURSIVE Desc(_)
        Desc(S) == IF S = {} THEN <<>>
                   ELSE LET m == CHOOSE r \in S : \A q \in S : q.id <= r.id
                        IN  <<m>> \o Desc(S \ {m})
    IN  Desc(rows)

InsertVehicleRowSwapped(id, userId, body) ==
    [id |-> id, user_id |-> userId,
     owner_name |-> Bind(body, "owner_name"), phone |-> Bind(body, "phone"),
     vehicle_number |-> Bind(body, "vehicle_number"),
     make |-> Bind(body, "model"), model |-> Bind(body, "make"),
     last_service_date |-> Bind(body, "last_service_date"),
     next_service_date |-> Bind(body, "next_service_date"),
     notes |-> Bind(body, "notes")]
InsertVehicleRowBodyOwner(id, userId, body) ==
    [id |-> id,
     user_id |-> IF "user_id" \in DOMAIN body THEN body.user_id ELSE userId,
     owner_name |-> Bind(body, "owner_name"), phone |-> Bind(body, "phone"),
     vehicle_number |-> Bind(body, "vehicle_number"),
     make |-> Bind(body, "make"), model |-> Bind(body, "model"),
     last_service_date |-> Bind(body, "last_service_date"),
     next_service_date |-> Bind(body, "next_service_date"),
     notes |-> Bind(body, "notes")]
\* INSERT INTO vehicles (user_id, owner_name, ...) VALUES (?, ?, ...)
InsertVehicleRow(id, userId, body) ==
    [id |-> id, user_id |-> userId,
     owner_name |-> Bind(body, "owner_name"), phone |-> Bind(body, "phone"),
     vehicle_number |-> Bind(body, "vehicle_number"),
     make |-> Bind(body, "make"), model |-> Bind(body, "model"),
     last_service_date |-> Bind(body, "last_service_date"),
     next_service_date |-> Bind(body, "next_service_date"),
     notes |-> Bind(body, "notes")]

UpdateWhereIdOnly(v, id, userId) == v.id = id
\* WHERE id = ? AND user_id = ?  (UPDATE)
UpdateWhere(v, id, userId) == v.id = id /\ v.user_id = userId

UpdateSetCoalesce(v, body) ==
    [c \in DOMAIN v |->
        IF c \in VehicleColumns /\ c \in DOMAIN body THEN body[c] ELSE v[c]]
\* SET owner_name = ?, phone = ?, ... , notes = ?
UpdateSet(v, body) ==
    [v EXCEPT !.owner_name = Bind(body, "owner_name"),
              !.phone = Bind(body, "phone"),
              !.vehicle_number = Bind(body, "vehicle_number"),
              !.make = Bind(body, "make"),
              !.model = Bind(body, "model"),
              !.last_service_date = Bind(body, "last_service_date"),
              !.next_service_date = Bind(body, "next_service_date"),
              !.notes = Bind(body, "notes")]

DeleteWhereIdOnly(v, id, userId) == v.id = id
\* WHERE id = ? AND user_id = ?  (DELETE)
DeleteWhere(v, id, userId) == v.id = id /\ v.user_id = userId

(***************************************************************************)
(* POST /api/auth/signup                                                   *)
(***************************************************************************)
\* The handler after `await bcrypt.hash(password, 10)`: INSERT, jwt.sign and
\* the response; the catch answers a UNIQUE violation with 400.
SignupAfterAwait(req, salt) ==
    LET body == req.body
        hashedPassword == BcryptHash(body.password, salt)
        lastInsertRowid == NextRowid("users")
        token == JwtSign([userId |-> lastInsertRowid, email |-> body.email,
                          garageName |-> body.garageName], JWT_SECRET)
        result == InsertUser([id |-> lastInsertRowid, email |-> body.email,
                              password |-> hashedPassword,
                              garage_name |-> body.garageName])
    IN  IF ~result.throws
        THEN /\ users' = result.rows
             /\ sqlite_sequence' =
                    [sqlite_sequence EXCEPT !.users = lastInsertRowid]
             /\ issued' = issued \cup {token}
             /\ last' = [req |-> req,
                         res |-> Res(200,
                             [token |-> token,
                              user |-> [email |-> body.email,
                                        garageName |-> body.garageName]]),
                         ran |-> TRUE]
        ELSE /\ last' = [req |-> req,
                         res |-> Res(400, [error |-> "Email already exists"]),
                         ran |-> TRUE]
             /\ UNCHANGED <<users, sqlite_sequence, issued>>

\* The whole handler, run without interleaving.
Signup(body, salt) ==
    /\ SignupAfterAwait([route |-> "signup", body |-> body], salt)
    /\ UNCHANGED <<vehicles, pending, created>>
    /\ UNCHANGED clientVars

(***************************************************************************)
(* POST /api/auth/login                                                    *)
(***************************************************************************)
InvalidCredentials == Res(401, [error |-> "Invalid credentials"])

\* `!user` holds: the || short-circuits, no await.
LoginNoUser(req) ==
    /\ last' = [req |-> req, res |-> InvalidCredentials, ran |-> TRUE]
    /\ UNCHANGED issued

LoginClaimLastRowid(user) ==
    [userId |-> sqlite_sequence.users, email |-> user.email,
     garageName |-> user.garage_name]
\* { userId: user.id, email: user.email, garageName: user.garage_name }
LoginClaim(user) ==
    [userId |-> user.id, email |-> user.email, garageName |-> user.garage_name]

\* The handler after `await bcrypt.compare(password, user.password)`.
LoginAfterAwait(req, user) ==
    LET token == JwtSign(LoginClaim(user), JWT_SECRET)
    IN  IF ~BcryptCompare(req.body.password, user.password)
        THEN /\ last' = [req |-> req, res |-> InvalidCredentials, ran |-> TRUE]
             /\ UNCHANGED issued
        ELSE /\ issued' = issued \cup {token}
             /\ last' = [req |-> req,
                         res |-> Res(200,
                             [token |-> token,
                              user |-> [email |-> user.email,
                                        garageName |-> user.garage_name]]),
                         ran |-> TRUE]

\* The whole handler, run without interleaving.
Login(body) ==
    LET found == SelectUserByEmail(body.email)
        req == [route |-> "login", body |-> body]
    IN  /\ IF found = {}
           THEN LoginNoUser(req)
           ELSE LoginAfterAwait(req, CHOOSE u \in found : TRUE)
        /\ UNCHANGED <<users, vehicles, sqlite_sequence, pending, created>>
        /\ UNCHANGED clientVars

(***************************************************************************)
(* The two auth handlers as the event loop runs them: suspended at their   *)
(* await, other requests run in between.                                   *)
(***************************************************************************)
FreeSlot(s) ==
    /\ pending[s] = Idle
    /\ \A t \in Slots : t < s => pending[t] # Idle

SignupStart(s, body) ==
    /\ FreeSlot(s)
    /\ pending' = [pending EXCEPT ![s] = [route |-> "signup", body |-> body]]
    /\ UNCHANGED <<users, vehicles, sqlite_sequence, issued, last, created>>
    /\ UNCHANGED clientVars

SignupResume(s, salt) ==
    /\ pending[s].route = "signup"
    /\ SignupAfterAwait(pending[s], salt)
    /\ pending' = [pending EXCEPT ![s] = Idle]
    /\ UNCHANGED <<vehicles, created>>
    /\ UNCHANGED clientVars

LoginStart(s, body) ==
    LET found == SelectUserByEmail(body.email)
        req == [route |-> "login", body |-> body]
    IN  /\ IF found = {}
           THEN /\ s = 1
                /\ LoginNoUser(req)
                /\ UNCHANGED pending
           ELSE /\ FreeSlot(s)
                /\ pending' = [pending EXCEPT ![s] =
                                [route |-> "login", body |-> body,
                                 user |-> CHOOSE u \in found : TRUE]]
                /\ UNCHANGED <<issued, last>>
        /\ UNCHANGED <<users, vehicles, sqlite_sequence, created>>
        /\ UNCHANGED clientVars

LoginResume(s) ==
    /\ pending[s].route = "login"
    /\ LoginAfterAwait([route |-> "login", body |-> pending[s].body],
                       pending[s].user)
    /\ pending' = [pending EXCEPT ![s] = Idle]
    /\ UNCHANGED <<users, vehicles, sqlite_sequence, created>>
    /\ UNCHANGED clientVars

(***************************************************************************)
(* Vehicle routes: each runs authenticate, then the handler                *)
(***************************************************************************)
Rejected(req, auth) == last' = [req |-> req, res |-> auth.res, ran |-> FALSE]

\* GET /api/vehicles
ListVehicles(authorization) ==
    LET req == [route |-> "list", authorization |-> authorization]
        auth == authenticate(authorization)
    IN  /\ IF ~auth.next
           THEN Rejected(req, auth)
           ELSE last' = [req |-> req,
                         res |-> Res(200, OrderByIdDesc(
                                    {v \in vehicles : ListWhere(v, auth.user.userId)})),
                         ran |-> TRUE]
        /\ UNCHANGED <<users, vehicles, sqlite_sequence, issued, pending, created>>
        /\ UNCHANGED clientVars

\* POST /api/vehicles
CreateVehicle(authorization, body) ==
    LET req == [route |-> "create", authorization |-> authorization,
                body |-> body]
        auth == authenticate(authorization)
        lastInsertRowid == NextRowid("vehicles")
    IN  /\ IF ~auth.next
           THEN /\ Rejected(req, auth)
                /\ UNCHANGED <<vehicles, sqlite_sequence, created>>
           ELSE /\ sqlite_sequence.vehicles < MaxVehicles
                /\ vehicles' = vehicles \cup
                       {InsertVehicleRow(lastInsertRowid, auth.user.userId, body)}
                /\ sqlite_sequence' =
                       [sqlite_sequence EXCEPT !.vehicles = lastInsertRowid]
                /\ created' = Append(created, <<lastInsertRowid, auth.user.userId>>)
                /\ last' = [req |-> req,
                            res |-> Res(200, Spread([id |-> lastInsertRowid], body)),
                            ran |-> TRUE]
        /\ UNCHANGED <<users, issued, pending>>
        /\ UNCHANGED clientVars

Success == Res(200, [success |-> TRUE])

\* PUT /api/vehicles/:id
UpdateVehicle(authorization, id, body) ==
    LET req == [route |-> "update", authorization |-> authorization,
                id |-> id, body |-> body]
        auth == authenticate(authorization)
    IN  /\ IF ~auth.next
           THEN /\ Rejected(req, auth)
                /\ UNCHANGED vehicles
           ELSE /\ vehicles' =
                       {IF UpdateWhere(v, id, auth.user.userId)
                        THEN UpdateSet(v, body) ELSE v : v \in vehicles}
                /\ last' = [req |-> req, res |-> Success, ran |-> TRUE]
        /\ UNCHANGED <<users, sqlite_sequence, issued, pending, created>>
        /\ UNCHANGED clientVars

\* DELETE /api/vehicles/:id
DeleteVehicle(authorization, id) ==
    LET req == [route |-> "delete", authorization |-> authorization, id |-> id]
        auth == authenticate(authorization)
    IN  /\ IF ~auth.next
           THEN /\ Rejected(req, auth)
                /\ UNCHANGED vehicles
           ELSE /\ vehicles' =
                       {v \in vehicles : ~DeleteWhere(v, id, auth.user.userId)}
                /\ last' = [req |-> req, res |-> Success, ran |-> TRUE]
        /\ UNCHANGED <<users, sqlite_sequence, issued, pending, created>>
        /\ UNCHANGED clientVars

\* Values of req.params.id: ids of rows present, deleted or never inserted.
PathIds == 1..MaxVehicles

Next ==
    \/ \E b \in SignupBodies, salt \in Salts : Signup(b, salt)
    \/ \E b \in LoginBodies : Login(b)
    \/ \E h \in Headers : ListVehicles(h)
    \/ \E h \in Headers, b \in VehicleBodies : CreateVehicle(h, b)
    \/ \E h \in Headers, id \in PathIds, b \in VehicleBodies :
            UpdateVehicle(h, id, b)
    \/ \E h \in Headers, id \in PathIds : DeleteVehicle(h, id)

\* Requests handled one after the other.
Spec == Init /\ [][Next]_vars

NextAsync ==
    \/ \E s \in Slots, b \in SignupBodies : SignupStart(s, b)
    \/ \E s \in Slots, salt \in Salts : SignupResume(s, salt)
    \/ \E s \in Slots, b \in LoginBodies : LoginStart(s, b)
    \/ \E s \in Slots : LoginResume(s)

\* Auth requests in flight together, interleaved at their awaits.
SpecAsync == Init /\ [][NextAsync]_vars

(***************************************************************************)
(* The dashboard (client): stats and the per-card overdue flag             *)
(***************************************************************************)
\* parseISO('yyyy-MM-dd'): local midnight of the day.
parseISO(day) == day * TicksPerDay
addDays(date, amount) == date + amount * TicksPerDay
isBefore(date, dateToCompare) == date < dateToCompare
isAfter(date, dateToCompare) == date > dateToCompare

\* isBefore(parseISO(v.next_service_date), today)
IsOverdue(v, now) == isBefore(parseISO(v.next_service_date), now)
\* isAfter(next, today) && isBefore(next, addDays(today, 7))
IsUpcoming(v, now) ==
    LET next == parseISO(v.next_service_date)
    IN  isAfter(next, now) /\ isBefore(next, addDays(now, 7))

\* { total: vehicles.length, overdue, upcoming }, each count the length of
\* vehicles.filter(..)
Stats(list, now) ==
    [total |-> Len(list),
     overdue |-> Cardinality({i \in 1..Len(list) : IsOverdue(list[i], now)}),
     upcoming |-> Cardinality({i \in 1..Len(list) : IsUpcoming(list[i], now)})]

\* Rows a listing can hold, by next_service_date.
ClientRows ==
    {[id |-> 1, user_id |-> 1, owner_name |-> "Jane", phone |-> "555",
      vehicle_number |-> "AB123", make |-> "Honda", model |-> "City",
      last_service_date |-> 0, next_service_date |-> d, notes |-> "first"] :
        d \in 0..MaxDay}

ClientLists ==
    UNION {[1..n -> ClientRows] : n \in 0..MaxClientVehicles}

\* setVehicles(data) and the recomputation of stats it triggers, at `now`.
FetchVehicles(data, now) ==
    /\ now >= today
    /\ clientVehicles' = data
    /\ today' = now
    /\ stats' = Stats(data, now)
    /\ UNCHANGED serverVars

NextStats ==
    \E data \in ClientLists, now \in 0..(MaxDay * TicksPerDay) :
        FetchVehicles(data, now)

SpecStats == Init /\ [][NextStats]_vars


(***************************************************************************)
(* Vocabulary of the properties                                            *)
(***************************************************************************)
VehicleRoutes == {"list", "create", "update", "delete"}

\* The request carries a token that the server issued to some account.
CarriesIssuedToken(req) ==
    /\ req.route \in VehicleRoutes
    /\ Len(req.authorization) >= 2
    /\ req.authorization[2] \in issued

\* The account a token was issued to.
AccountOf(req) == req.authorization[2].payload.userId

\* The account whose token created the row with this id.
CreatorOf(id) ==
    LET i == CHOOSE j \in 1..Len(created) : created[j][1] = id
    IN  created[i][2]

CreatedIds == {created[j][1] : j \in 1..Len(created)}

\* Position of an id in the order of creation.
CreatedAt(id) == CHOOSE j \in 1..Len(created) : created[j][1] = id

\* C1: a listing answered to a token of account B holds only rows that were
\* created with a token of B, never a row created with a token of another
\* account A.
C1_ListIsolation ==
    (CarriesIssuedToken(last.req) /\ last.req.route = "list")
        => /\ last.res.status = 200
           /\ \A i \in 1..Len(last.res.body) :
                 /\ last.res.body[i].id \in CreatedIds
                 /\ CreatorOf(last.res.body[i].id) = AccountOf(last.req)

\* Account B lists while a row created by another account A is stored.
C1_Witness ==
    /\ CarriesIssuedToken(last.req)
    /\ last.req.route = "list"
    /\ Len(last.res.body) >= 1
    /\ \E v \in vehicles : CreatorOf(v.id) # AccountOf(last.req)

\* C2: an update or delete sent with a token of B and the id of a stored row
\* that A # B created leaves the store as it was: the row still exists with
\* every field unchanged, and so does every other row.
C2_WriteIsolation ==
    [][ ( /\ CarriesIssuedToken(last'.req)
          /\ last'.req.route \in {"update", "delete"}
          /\ \E r \in vehicles :
                /\ r.id = last'.req.id
                /\ CreatorOf(r.id) # AccountOf(last'.req) )
        => (vehicles' = vehicles /\ users' = users) ]_vars

\* B's delete of a row of A has been answered, and the row is still there.
C2_Witness ==
    /\ CarriesIssuedToken(last.req)
    /\ last.req.route = "delete"
    /\ last.res.status = 200
    /\ \E r \in vehicles :
          /\ r.id = last.req.id
          /\ CreatorOf(r.id) # AccountOf(last.req)

\* C3: a request to a vehicle route with no token, or with a token signed with
\* another secret than the server's, is answered 401, the route handler does
\* not run, and users and vehicles are unchanged.
C3_Unauthenticated ==
    [][ ( /\ last'.req.route \in VehicleRoutes
          /\ \/ Len(last'.req.authorization) < 2
             \/ last'.req.authorization[2].secret # JWT_SECRET )
        => ( /\ last'.res.status = 401
             /\ ~last'.ran
             /\ users' = users
             /\ vehicles' = vehicles ) ]_vars

\* A create carrying a token signed with another secret has been answered
\* while rows are stored.
C3_Witness ==
    /\ last.req.route = "create"
    /\ Len(last.req.authorization) >= 2
    /\ last.req.authorization[2].secret = OTHER_SECRET
    /\ last.res.status = 401
    /\ vehicles # {}


\* C4: a signup whose email an account already holds (exact match) is
\* answered 400 "Email already exists", issues no token and leaves users
\* unchanged; and in every state no two accounts hold the same email.
C4_DuplicateEmail ==
    /\ [](\A u1, u2 \in users : u1.email = u2.email => u1 = u2)
    /\ [][ ( /\ last'.req.route = "signup"
             /\ \E u \in users : u.email = last'.req.body.email )
           => ( /\ last'.res = Res(400, [error |-> "Email already exists"])
                /\ issued' = issued
                /\ users' = users ) ]_vars

\* A signup has been refused while both accounts exist.
C4_Witness ==
    /\ last.req.route = "signup"
    /\ last.res.status = 400
    /\ \E u \in users : u.email = last.req.body.email
    /\ Cardinality(users) = 2

C6_CreateListRoundTrip ==
    [][ ( /\ CarriesIssuedToken(last.req)
          /\ last.req.route = "create"
          /\ CarriesIssuedToken(last'.req)
          /\ last'.req.route = "list"
          /\ AccountOf(last'.req) = AccountOf(last.req) )
        => \E i \in 1..Len(last'.res.body) :
              LET row == last'.res.body[i]
              IN  /\ \A c \in VehicleColumns \cap DOMAIN last.req.body :
                        row[c] = last.req.body[c]
                  /\ row.id = created[Len(created)][1]
                  /\ \A j \in 1..(Len(created) - 1) : created[j][1] # row.id
                  /\ \A v \in vehicles : v.id = row.id => v = row ]_vars

\* A listing shows, first, the row with the id assigned last, while an older
\* row is stored too.
C6_Witness ==
    /\ CarriesIssuedToken(last.req)
    /\ last.req.route = "list"
    /\ Len(last.res.body) >= 1
    /\ last.res.body[1].id = sqlite_sequence.vehicles
    /\ Cardinality(vehicles) >= 2


\* C7: the dashboard counts a row as overdue iff next < now and as upcoming
\* iff now <= next < now + 7 days; a row whose next date equals now is counted
\* as upcoming.
C7_Classification ==
    LET next(i) == parseISO(clientVehicles[i].next_service_date)
        rows == 1..Len(clientVehicles)
    IN  /\ stats.overdue = Cardinality({i \in rows : next(i) < today})
        /\ stats.upcoming =
              Cardinality({i \in rows :
                  today <= next(i) /\ next(i) < today + 7 * TicksPerDay})

\* C8: a listing answered to an account holds all and only the stored rows
\* the account created, each once, a row created later before every row
\* created earlier.
C8_ListNewestFirst ==
    (CarriesIssuedToken(last.req) /\ last.req.route = "list")
        => LET body == last.res.body
           IN  /\ {body[i] : i \in 1..Len(body)} =
                     {v \in vehicles : CreatorOf(v.id) = AccountOf(last.req)}
               /\ \A i, j \in 1..Len(body) : i # j => body[i] # body[j]
               /\ \A i, j \in 1..Len(body) :
                     CreatedAt(body[i].id) < CreatedAt(body[j].id) => j < i

\* A listing of two rows of one account.
C8_Witness ==
    /\ CarriesIssuedToken(last.req)
    /\ last.req.route = "list"
    /\ Len(last.res.body) >= 2

\* C9: an update or delete with an issued token whose id names no stored row,
\* or a row another account created, changes nothing in the store; and every
\* update or delete with an issued token, applied or not, is answered
\* 200 {success: true}.
C9_SilentNoOp ==
    [][ ( /\ CarriesIssuedToken(last'.req)
          /\ last'.req.route \in {"update", "delete"} )
        => ( /\ last'.res = Res(200, [success |-> TRUE])
             /\ (\A v \in vehicles :
                     v.id = last'.req.id => CreatorOf(v.id) # AccountOf(last'.req))
                  => (vehicles' = vehicles /\ users' = users) ) ]_vars

\* A delete naming an id that no stored row has was answered with success
\* while rows are stored.
C9_Witness ==
    /\ CarriesIssuedToken(last.req)
    /\ last.req.route = "delete"
    /\ last.res = Res(200, [success |-> TRUE])
    /\ vehicles # {}
    /\ last.req.id \in 1..sqlite_sequence.vehicles
    /\ \A v \in vehicles : v.id # last.req.id
    /\ CreatorOf(last.req.id) # AccountOf(last.req)

\* C10: the id in the response of an authenticated create is the id of the
\* row this request inserted, whatever the request body holds.
C10_ResponseId ==
    (CarriesIssuedToken(last.req) /\ last.req.route = "create")
        => last.res.body.id = created[Len(created)][1]


\* C11: the owner of every stored row is the userId of the verified token
\* that created it, whatever the body held (its own user_id included); a
\* listing holds exactly the stored rows whose owner is the token's userId;
\* and an update or delete touches only rows whose owner is the token's
\* userId.
C11_OwnerFromToken ==
    /\ [](\A v \in vehicles : v.user_id = CreatorOf(v.id))
    /\ []((CarriesIssuedToken(last.req) /\ last.req.route = "list")
            => {last.res.body[i] : i \in 1..Len(last.res.body)} =
                 {v \in vehicles : v.user_id = AccountOf(last.req)})
    /\ [][ ( /\ CarriesIssuedToken(last'.req)
             /\ last'.req.route \in {"update", "delete"} )
           => \A v \in vehicles :
                 v \notin vehicles' => v.user_id = AccountOf(last'.req) ]_vars

\* A create whose body names another account as user_id was answered, and
\* the row it inserted is owned by the account of the token.
C11_Witness ==
    /\ CarriesIssuedToken(last.req)
    /\ last.req.route = "create"
    /\ "user_id" \in DOMAIN last.req.body
    /\ last.req.body.user_id # AccountOf(last.req)
    /\ \E v \in vehicles :
          /\ v.id = created[Len(created)][1]
          /\ v.user_id = AccountOf(last.req)


RequiredColumns == VehicleColumns \ {"notes"}

\* C12: a create with an issued token whose body supplies the seven required
\* fields and no notes is answered 200 and adds exactly one row: a new id,
\* owned by the account of the token, the seven fields as submitted and no
\* notes (NULL); the response holds that id and the submitted fields.
C12_NotesOptional ==
    [][ ( /\ CarriesIssuedToken(last'.req)
          /\ last'.req.route = "create"
          /\ DOMAIN last'.req.body = RequiredColumns )
        => /\ last'.res.status = 200
           /\ \E r \in vehicles' :
                /\ vehicles' = vehicles \cup {r}
                /\ r \notin vehicles
                /\ r.id \notin {v.id : v \in vehicles} \cup CreatedIds
                /\ r.user_id = AccountOf(last'.req)
                /\ \A c \in RequiredColumns : r[c] = last'.req.body[c]
                /\ r.notes = NULL
                /\ last'.res.body.id = r.id
                /\ \A c \in RequiredColumns :
                      last'.res.body[c] = last'.req.body[c] ]_vars

\* A create without notes was answered and its row is stored, beside an
\* older row.
C12_Witness ==
    /\ CarriesIssuedToken(last.req)
    /\ last.req.route = "create"
    /\ DOMAIN last.req.body = RequiredColumns
    /\ last.res.status = 200
    /\ Cardinality(vehicles) = 2
    /\ \E r \in vehicles : r.id = last.res.body.id /\ r.notes = NULL


\* C13: every account row stays in users as it is (id, email, password hash,
\* garage name); users changes only by a signup answered 200, which adds one
\* row; login and the four vehicle routes leave users unchanged.
C13_AccountsCreateOnly ==
    [][ /\ users \subseteq users'
        /\ users' # users =>
              /\ last'.req.route = "signup"
              /\ last'.res.status = 200
              /\ \E u \in users' :
                    /\ users' = users \cup {u}
                    /\ u.email = last'.req.body.email
                    /\ \A w \in users : w.id # u.id /\ w.email # u.email
        /\ (last'.req.route = "signup" /\ last'.res.status = 200)
              => users' # users ]_vars

\* Both accounts exist, rows were created and one deleted, and a login was
\* answered last.
C13_Witness ==
    /\ Cardinality(users) = 2
    /\ Len(created) > Cardinality(vehicles)
    /\ last.req.route = "login"
    /\ last.res.status = 200


\* C14: a token the server has issued stays issued and stays accepted: the
\* gate passes it, with the claim it was signed with, in every later state,
\* and every vehicle request carrying it runs its handler and is answered 200,
\* whatever signups, logins and vehicle requests came in between.
C14_NoExpiry ==
    /\ [](\A t \in issued :
            authenticate(<<"Bearer", t>>) = [next |-> TRUE, user |-> t.payload])
    /\ [][ /\ issued \subseteq issued'
           /\ ( /\ last'.req.route \in VehicleRoutes
                /\ Len(last'.req.authorization) >= 2
                /\ last'.req.authorization[2] \in issued )
              => (last'.ran /\ last'.res.status = 200) ]_vars

\* Account 1's token is accepted on a list after account 2 has signed up and
\* created a row, and after rows were created and deleted.
C14_Witness ==
    /\ CarriesIssuedToken(last.req)
    /\ last.req.route = "list"
    /\ AccountOf(last.req) = 1
    /\ last.res.status = 200
    /\ Cardinality(users) = 2
    /\ \E v \in vehicles : v.user_id = 2
    /\ Len(created) > Cardinality(vehicles)

\* C15: an update by the owner of the row it names replaces that row by one
\* with the same id and owner whose eight columns are the values of this
\* request (a column the body lacks becomes NULL, never the earlier value);
\* every other row and the accounts are unchanged.
C15_FullOverwrite ==
    [][ ( /\ CarriesIssuedToken(last'.req)
          /\ last'.req.route = "update"
          /\ \E r \in vehicles :
                r.id = last'.req.id /\ r.user_id = AccountOf(last'.req) )
        => /\ users' = users
           /\ \E r \in vehicles, r2 \in vehicles' :
                 /\ r.id = last'.req.id
                 /\ r2.id = r.id
                 /\ r2.user_id = r.user_id
                 /\ \A c \in VehicleColumns :
                       r2[c] = IF c \in DOMAIN last'.req.body
                               THEN last'.req.body[c] ELSE NULL
                 /\ vehicles' = (vehicles \ {r}) \cup {r2} ]_vars

\* The owner's update with a body without notes was answered; the row holds
\* the submitted name and NULL notes, and the other stored row differs.
C15_Witness ==
    /\ CarriesIssuedToken(last.req)
    /\ last.req.route = "update"
    /\ "notes" \notin DOMAIN last.req.body
    /\ \E r \in vehicles :
          /\ r.id = last.req.id
          /\ r.user_id = AccountOf(last.req)
          /\ r.owner_name = last.req.body.owner_name
          /\ r.notes = NULL
          /\ \E q \in vehicles : q.id # r.id /\ q.owner_name # r.owner_name

\* Ids of rows that were created and are no longer stored.
DeletedIds == CreatedIds \ {v.id : v \in vehicles}

\* C16: a deleted id stays deleted: no listing shows it, an update or delete
\* naming it changes nothing, and a create never gets an id that was ever
\* assigned before.
C16_NoWayBack ==
    /\ []((CarriesIssuedToken(last.req) /\ last.req.route = "list")
            => \A i \in 1..Len(last.res.body) :
                  last.res.body[i].id \notin DeletedIds)
    /\ [][ /\ DeletedIds \subseteq DeletedIds'
           /\ ( /\ CarriesIssuedToken(last'.req)
                /\ last'.req.route \in {"update", "delete"}
                /\ last'.req.id \in DeletedIds )
              => (vehicles' = vehicles /\ last'.res.status = 200)
           /\ ( /\ CarriesIssuedToken(last'.req)
                /\ last'.req.route = "create" )
              => \A r \in vehicles' \ vehicles : r.id \notin CreatedIds ]_vars

\* A create was answered after the only earlier row had been deleted: the new
\* row has a larger id than the deleted one.
C16_Witness ==
    /\ CarriesIssuedToken(last.req)
    /\ last.req.route = "create"
    /\ last.res.status = 200
    /\ DeletedIds # {}
    /\ \E r \in vehicles : \A d \in DeletedIds : d < r.id


\* The accounts holding an email.
AccountsWith(email) == {u \in users : u.email = email}

\* A suspended request of a slot is answered in this step.
Resumes(s, route) == pending[s].route = route /\ pending'[s] = Idle

\* C17: with signups and logins interleaved at their awaits, no email ever
\* has two accounts and every account is one answered signup; each request is
\* answered, at the step that resumes it, as the handler run alone on the
\* store of that moment would answer it: a signup whose email is free adds
\* one account and returns its token, whatever other signup of that email is
\* still suspended, and a signup whose email is held (also when it was free
\* at the time the request started) is answered 400 and changes nothing.
C17_SignupRace ==
    /\ [](/\ \A e \in {b.email : b \in SignupBodies} :
                Cardinality(AccountsWith(e)) <= 1
          /\ sqlite_sequence.users = Cardinality(users))
    /\ [][ \A s \in Slots :
             /\ Resumes(s, "signup") =>
                  LET b == pending[s].body
                  IN  IF AccountsWith(b.email) = {}
                      THEN /\ last'.res.status = 200
                           /\ last'.res.body.token \in issued'
                           /\ last'.res.body.token.payload.email = b.email
                           /\ \E u \in users' :
                                 /\ users' = users \cup {u}
                                 /\ u \notin users
                                 /\ u.email = b.email
                                 /\ u.garage_name = b.garageName
                                 /\ u.id = last'.res.body.token.payload.userId
                           /\ sqlite_sequence'.users = sqlite_sequence.users + 1
                      ELSE /\ last'.res = Res(400, [error |-> "Email already exists"])
                           /\ users' = users
                           /\ issued' = issued
                           /\ sqlite_sequence' = sqlite_sequence
             /\ Resumes(s, "login") =>
                  LET b == pending[s].body
                  IN  /\ users' = users
                      /\ sqlite_sequence' = sqlite_sequence
                      /\ \E u \in AccountsWith(b.email) :
                            IF BcryptCompare(b.password, u.password)
                            THEN /\ last'.res.status = 200
                                 /\ last'.res.body.token \in issued'
                                 /\ last'.res.body.token.payload.userId = u.id
                            ELSE /\ last'.res = InvalidCredentials
                                 /\ issued' = issued ]_vars

\* Two signups of one email were in flight together: the first to resume
\* has been answered with a token and its account is stored, the second is
\* still suspended.
C17_Witness ==
    /\ last.req.route = "signup"
    /\ last.res.status = 200
    /\ Cardinality(AccountsWith(last.req.body.email)) = 1
    /\ \E s \in Slots :
          /\ pending[s].route = "signup"
          /\ pending[s].body.email = last.req.body.email


\* C18: the token of a successful login carries the id and email of the
\* account row that signup stored for that email; every issued token names
\* one stored account by id and email, so all tokens of an account carry one
\* id; and a listing answered to any of them holds exactly the stored rows
\* that were created with a token of that account.
C18_SessionContinuity ==
    /\ \A t \in issued :
          \E u \in users : /\ u.id = t.payload.userId
                           /\ u.email = t.payload.email
    /\ \A u, w \in users : (u.id = w.id \/ u.email = w.email) => u = w
    /\ (last.req.route = "login" /\ last.res.status = 200)
          => /\ last.res.body.token \in issued
             /\ last.res.body.token.payload.email = last.req.body.email
             /\ \E u \in users :
                   /\ u.email = last.req.body.email
                   /\ u.id = last.res.body.token.payload.userId
    /\ (CarriesIssuedToken(last.req) /\ last.req.route = "list")
          => {last.res.body[i].id : i \in 1..Len(last.res.body)} =
               {v.id : v \in {r \in vehicles :
                                CreatorOf(r.id) = AccountOf(last.req)}}

\* The second account logs in while a row it created is stored and after
\* another row was deleted.
C18_Witness ==
    /\ last.req.route = "login"
    /\ last.res.status = 200
    /\ last.res.body.token.payload.userId = 2
    /\ Cardinality(users) = 2
    /\ \E v \in vehicles : CreatorOf(v.id) = 2
    /\ Len(created) > Cardinality(vehicles)

=============================================================================
